---- MODULE Spec2Model ----
(***************************************************************************)
(* CDNLinker (src/cdn-enabler/main.js): the two content modifiers         *)
(* modifyHtml and modifyFeeds, with the regular expressions they build    *)
(* evaluated on character strings.  Strings are TLA+ strings; Char(s, i)  *)
(* is the one-character string at position i (1-based).                   *)
(***************************************************************************)
EXTENDS Integers, Sequences, FiniteSets, TLC

VARIABLES config, renderer, hook, parts, text, prev, output, passes

vars == <<config, renderer, hook, parts, text, prev, output, passes>>

(* How many times the host runs the htmlOutput modifier over a document. *)
MaxPasses == 2

-----------------------------------------------------------------------------
(* String primitives of the JavaScript runtime.                            *)

Char(s, i) == SubSeq(s, i, i)

Drop(s, n) == SubSeq(s, n + 1, Len(s))

StartsWithAt(s, p, i) ==
    /\ i >= 1
    /\ i + Len(p) - 1 <= Len(s)
    /\ SubSeq(s, i, i + Len(p) - 1) = p

startsWith(s, p) == StartsWithAt(s, p, 1)

endsWith(s, p) ==
    /\ Len(p) <= Len(s)
    /\ SubSeq(s, Len(s) - Len(p) + 1, Len(s)) = p

Min(S) == CHOOSE m \in S : \A k \in S : m <= k

(* Characters the regular expression '.' does not match. *)
LineTerminators == {"\n", "\r"}

(* Characters matched by \s and removed by trim(). *)
WhiteSpace == {" ", "\t", "\n", "\r", "\f"}

Quotes == {"\"", "'"}

(* First index k >= i with Char(s, k) \in S, or Len(s) + 1 when none. *)
FirstIn(s, i, S) ==
    Min({k \in i..(Len(s) + 1) : k = Len(s) + 1 \/ Char(s, k) \in S})

(* First index k >= i with Char(s, k) \notin S, or Len(s) + 1 when none. *)
FirstNotIn(s, i, S) ==
    Min({k \in i..(Len(s) + 1) : k = Len(s) + 1 \/ Char(s, k) \notin S})

(* Array.prototype.join *)
RECURSIVE join(_, _)
join(arr, sep) ==
    IF Len(arr) = 0 THEN ""
    ELSE IF Len(arr) = 1 THEN arr[1]
    ELSE arr[1] \o sep \o join(Tail(arr), sep)

(* String.prototype.trim *)
trim(s) ==
    LET b == FirstNotIn(s, 1, WhiteSpace)
        e == IF b > Len(s) THEN Len(s)
             ELSE CHOOSE k \in b..Len(s) :
                    /\ Char(s, k) \notin WhiteSpace
                    /\ \A j \in (k + 1)..Len(s) : Char(s, j) \in WhiteSpace
    IN  SubSeq(s, b, e)

(* value.split(',') *)
RECURSIVE splitComma(_)
splitComma(s) ==
    LET c == FirstIn(s, 1, {","})
    IN  IF c > Len(s) THEN <<s>>
        ELSE <<SubSeq(s, 1, c - 1)>> \o splitComma(Drop(s, c))

(* trimmedPart.split on runs of whitespace *)
RECURSIVE splitWhitespace(_)
splitWhitespace(s) ==
    LET w == FirstIn(s, 1, WhiteSpace)
    IN  IF w > Len(s) THEN <<s>>
        ELSE <<SubSeq(s, 1, w - 1)>>
               \o splitWhitespace(Drop(s, FirstNotIn(s, w, WhiteSpace) - 1))

-----------------------------------------------------------------------------
(* The pattern list of modifyHtml and the matcher made from it.            *)

Fragment(k, t, e) == [kind |-> k, literal |-> t, exts |-> e]

assetExtensions(cfg) ==
    (IF cfg.enableCss THEN <<"css">> ELSE <<>>)
    \o (IF cfg.enableJs THEN <<"js">> ELSE <<>>)
    \o (IF cfg.enableFonts
        THEN <<"woff", "woff2", "ttf", "otf", "eot", "svg">> ELSE <<>>)

finalPatterns(cfg) ==
    (IF cfg.enableImages THEN <<Fragment("literal", "/media/", <<>>)>> ELSE <<>>)
    \o (IF Len(assetExtensions(cfg)) > 0
        THEN <<Fragment("asset", "", assetExtensions(cfg))>> ELSE <<>>)
    \o (IF cfg.enableJsonFeed
        THEN <<Fragment("literal", "feed.json", <<>>)>> ELSE <<>>)
    \o (IF cfg.enableXmlFeed
        THEN <<Fragment("literal", "feed.xml", <<>>)>> ELSE <<>>)

(* The asset fragment (directory alternative, any run, dot, extension      *)
(* alternative, optional query group), searched anywhere                   *)
(* in url: a directory segment at i, any run of non-line-terminators, then *)
(* '.' and an extension at j.  The optional query group matches the empty  *)
(* string, so it never decides the test, and nothing anchors the end.      *)
assetRegexMatches(exts, url) ==
    \E i \in 1..Len(url) :
        /\ StartsWithAt(url, "/assets/", i) \/ StartsWithAt(url, "/themes/", i)
        /\ \E j \in (i + 8)..Len(url) :
              /\ FirstIn(url, i + 8, LineTerminators) >= j
              /\ \E k \in 1..Len(exts) : StartsWithAt(url, "." \o exts[k], j)

fragmentMatches(f, url) ==
    IF f.kind = "asset"
    THEN assetRegexMatches(f.exts, url)
    ELSE \E i \in 1..Len(url) : StartsWithAt(url, f.literal, i)

(* assetUrlTestRegex.test(url), the regex being (?:f1|f2|...) of patterns *)
assetUrlTestRegex(patterns, url) ==
    \E k \in 1..Len(patterns) : fragmentMatches(patterns[k], url)

-----------------------------------------------------------------------------
(* performReplacement and its inner function.                              *)

(* cdnUrl with a leading "http://", "https://" or "//" removed, then one   *)
(* trailing "/" removed (the two replace calls).                           *)
cleanCdnDomain(cdnUrl) ==
    LET a == IF startsWith(cdnUrl, "https://") THEN Drop(cdnUrl, 8)
             ELSE IF startsWith(cdnUrl, "http://") THEN Drop(cdnUrl, 7)
             ELSE IF startsWith(cdnUrl, "//") THEN Drop(cdnUrl, 2)
             ELSE cdnUrl
    IN  IF endsWith(a, "/") THEN SubSeq(a, 1, Len(a) - 1) ELSE a

(* protocolOf whose fallback is "http://". *)
protocolOfHttpDefault(url) ==
    IF startsWith(url, "https://") THEN "https://" ELSE "http://"

protocolOf(url) ==
    IF startsWith(url, "https://") THEN "https://"
    ELSE IF startsWith(url, "http://") THEN "http://"
    ELSE "https://"

(* Where capture group 1 of pathRegex (optional scheme-and-host group,     *)
(* then a slash and one or more characters) starts when the match is       *)
(* attempted at index i, or 0 when the attempt fails.  The host run is     *)
(* greedy and must be followed by a slash, so it ends at the first slash   *)
(* after the scheme; the capture needs one non-line-terminator character   *)
(* after its slash.                                                        *)
pathStartAt(url, i) ==
    LET g == IF StartsWithAt(url, "https://", i) THEN i + 8
             ELSE IF StartsWithAt(url, "http://", i) THEN i + 7
             ELSE 0
        h == IF g = 0 THEN 0 ELSE FirstIn(url, g, {"/"})
        ok(p) == /\ p + 1 <= Len(url)
                 /\ Char(url, p) = "/"
                 /\ Char(url, p + 1) \notin LineTerminators
    IN  IF g # 0 /\ h > g /\ ok(h) THEN h
        ELSE IF ok(i) THEN i
        ELSE 0

(* pathMatch for a pathRegex without its optional scheme-and-host group. *)
pathMatchFromFirstSlash(url) ==
    LET starts == {i \in 1..(Len(url) - 1) :
                      Char(url, i) = "/" /\ Char(url, i + 1) \notin LineTerminators}
    IN  IF starts = {} THEN ""
        ELSE SubSeq(url, Min(starts),
                    FirstIn(url, Min(starts) + 1, LineTerminators) - 1)

(* url.match(pathRegex)[1], or "" when there is no match *)
pathMatch(url) ==
    LET starts == {i \in 1..Len(url) : pathStartAt(url, i) # 0}
    IN  IF starts = {} THEN ""
        ELSE LET p == pathStartAt(url, Min(starts))
             IN  SubSeq(url, p, FirstIn(url, p + 1, LineTerminators) - 1)

(* The inner function without the assetUrlTestRegex test. *)
replaceDomainSkipsMatcher(cfg, patterns, url) ==
    IF ~startsWith(url, "http") /\ ~startsWith(url, "/")
    THEN url
    ELSE IF pathMatch(url) # ""
         THEN protocolOf(url) \o cleanCdnDomain(cfg.cdnUrl) \o pathMatch(url)
         ELSE url

(* The inner function without the leading-character test. *)
replaceDomainSkipsPrefix(cfg, patterns, url) ==
    IF ~assetUrlTestRegex(patterns, url)
    THEN url
    ELSE IF pathMatch(url) # ""
         THEN protocolOf(url) \o cleanCdnDomain(cfg.cdnUrl) \o pathMatch(url)
         ELSE url

replaceDomainAndPreserveProtocol(cfg, patterns, url) ==
    IF (~startsWith(url, "http") /\ ~startsWith(url, "/"))
       \/ ~assetUrlTestRegex(patterns, url)
    THEN url
    ELSE IF pathMatch(url) # ""
         THEN protocolOf(url) \o cleanCdnDomain(cfg.cdnUrl) \o pathMatch(url)
         ELSE url

(* The srcset callback that returns the rewritten URL alone. *)
rewriteSrcsetPartUrlOnly(cfg, patterns, part) ==
    replaceDomainAndPreserveProtocol(cfg, patterns,
                                     Head(splitWhitespace(trim(part))))

rewriteSrcsetPart(cfg, patterns, part) ==
    LET tokens == splitWhitespace(trim(part))
    IN  join(<<replaceDomainAndPreserveProtocol(cfg, patterns, Head(tokens))>>
             \o Tail(tokens), " ")

RECURSIVE mapSrcset(_, _, _)
mapSrcset(cfg, patterns, partsSeq) ==
    IF Len(partsSeq) = 0 THEN <<>>
    ELSE <<rewriteSrcsetPart(cfg, patterns, Head(partsSeq))>>
           \o mapSrcset(cfg, patterns, Tail(partsSeq))

newValue(cfg, patterns, attribute, value) ==
    IF attribute = "srcset"
    THEN join(mapSrcset(cfg, patterns, splitComma(value)), ", ")
    ELSE replaceDomainAndPreserveProtocol(cfg, patterns, value)

NoMatch == [found |-> FALSE, attribute |-> "", value |-> "", last |-> 0]

(* One attempt of attributeRegex with the given attribute name at index i: *)
(* name, '=', a quote, a maximal non-empty run of non-quotes, and a quote. *)
attributeNameAt(s, i, name) ==
    LET q == i + Len(name) + 1
        e == FirstIn(s, q + 1, Quotes)
    IN  IF /\ StartsWithAt(s, name \o "=", i)
           /\ q <= Len(s) /\ Char(s, q) \in Quotes
           /\ e > q + 1 /\ e <= Len(s)
        THEN [found |-> TRUE, attribute |-> name,
              value |-> SubSeq(s, q + 1, e - 1), last |-> e]
        ELSE NoMatch

attributeRegexAt(s, i) ==
    IF attributeNameAt(s, i, "src").found THEN attributeNameAt(s, i, "src")
    ELSE IF attributeNameAt(s, i, "href").found THEN attributeNameAt(s, i, "href")
    ELSE attributeNameAt(s, i, "srcset")

(* content.replace(attributeRegex, callback) from index i on: the text up  *)
(* to the leftmost match is copied, the match is replaced by what the      *)
(* callback returns, and the scan resumes after the match.                 *)
RECURSIVE replaceAttributes(_, _, _, _)
replaceAttributes(cfg, patterns, content, i) ==
    LET starts == {k \in i..Len(content) : attributeRegexAt(content, k).found}
    IN  IF starts = {} THEN SubSeq(content, i, Len(content))
        ELSE LET m == attributeRegexAt(content, Min(starts))
             IN  SubSeq(content, i, Min(starts) - 1)
                   \o m.attribute \o "=\""
                   \o newValue(cfg, patterns, m.attribute, m.value) \o "\""
                   \o replaceAttributes(cfg, patterns, content, m.last + 1)

performReplacement(cfg, patterns, content) ==
    replaceAttributes(cfg, patterns, content, 1)

(* isDeploy that tests for 'preview' only. *)
isDeployPreviewOnly(r) == r.context # "preview"

isDeploy(r) == r.context # "preview" /\ r.context # "instant-preview"

modifyHtml(cfg, r, htmlCode) ==
    IF ~isDeploy(r) \/ cfg.cdnUrl = "" THEN htmlCode
    ELSE IF Len(finalPatterns(cfg)) = 0 THEN htmlCode
    ELSE performReplacement(cfg, finalPatterns(cfg), htmlCode)

-----------------------------------------------------------------------------
(* modifyFeeds: the site URL is escaped, compiled to a regular expression  *)
(* and every match is replaced.                                            *)

(* The characters that the escaping replace prefixes with a backslash. *)
RegExpSpecials ==
    {".", "*", "+", "?", "^", "$", "{", "}", "(", ")", "|", "[", "]", "\\"}

(* An escaping whose character class lacks the dot. *)
RECURSIVE escapeRegExpNoDot(_)
escapeRegExpNoDot(s) ==
    IF Len(s) = 0 THEN ""
    ELSE (IF Char(s, 1) \in RegExpSpecials \ {"."}
          THEN "\\" \o Char(s, 1) ELSE Char(s, 1))
           \o escapeRegExpNoDot(Drop(s, 1))

(* siteUrl.replace(specials, '\\$&') *)
RECURSIVE escapeRegExp(_)
escapeRegExp(s) ==
    IF Len(s) = 0 THEN ""
    ELSE (IF Char(s, 1) \in RegExpSpecials THEN "\\" \o Char(s, 1) ELSE Char(s, 1))
           \o escapeRegExp(Drop(s, 1))

(* new RegExp(source): the atoms of a source made of escaped characters,   *)
(* dots and ordinary characters.                                           *)
Atom(k, c) == [kind |-> k, ch |-> c]

RECURSIVE compileRegExp(_)
compileRegExp(source) ==
    IF Len(source) = 0 THEN <<>>
    ELSE IF Char(source, 1) = "\\" /\ Len(source) >= 2
         THEN <<Atom("char", Char(source, 2))>> \o compileRegExp(Drop(source, 2))
    ELSE IF Char(source, 1) = "."
         THEN <<Atom("any", "")>> \o compileRegExp(Drop(source, 1))
    ELSE <<Atom("char", Char(source, 1))>> \o compileRegExp(Drop(source, 1))

atomMatches(a, c) ==
    IF a.kind = "any" THEN c \notin LineTerminators ELSE c = a.ch

regExpMatchesAt(atoms, s, i) ==
    /\ i + Len(atoms) - 1 <= Len(s)
    /\ \A k \in 1..Len(atoms) : atomMatches(atoms[k], Char(s, i + k - 1))

(* content.replace(regex with flag g, replacement) from index i on: the    *)
(* text up to the leftmost match is copied, the match is replaced, and the *)
(* scan resumes after it.  The replacement is inserted as written: it      *)
(* holds no '$' here.                                                      *)
RECURSIVE replaceAll(_, _, _, _)
replaceAll(atoms, replacement, s, i) ==
    LET starts == {k \in i..Len(s) : Len(atoms) > 0 /\ regExpMatchesAt(atoms, s, k)}
    IN  IF starts = {} THEN SubSeq(s, i, Len(s))
        ELSE SubSeq(s, i, Min(starts) - 1) \o replacement
               \o replaceAll(atoms, replacement, s, Min(starts) + Len(atoms))

(* shouldModify that pairs any known suffix with any feed toggle. *)
shouldModifyAnyToggle(cfg, r) ==
    /\ \/ endsWith(r.file, "feed.xml") \/ endsWith(r.file, "feed.json")
       \/ endsWith(r.file, "sitemap.xml")
    /\ cfg.enableXmlFeed \/ cfg.enableJsonFeed \/ cfg.enableSitemap

shouldModify(cfg, r) ==
    \/ endsWith(r.file, "feed.xml") /\ cfg.enableXmlFeed
    \/ endsWith(r.file, "feed.json") /\ cfg.enableJsonFeed
    \/ endsWith(r.file, "sitemap.xml") /\ cfg.enableSitemap

siteUrlOf(r) ==
    IF endsWith(r.site.url, "/")
    THEN SubSeq(r.site.url, 1, Len(r.site.url) - 1) ELSE r.site.url

feedProtocol(siteUrl) ==
    IF startsWith(siteUrl, "https://") THEN "https://" ELSE "http://"

modifyFeeds(cfg, r, content) ==
    IF ~isDeploy(r) \/ cfg.cdnUrl = "" \/ ~r.site.present \/ r.site.url = ""
    THEN content
    ELSE IF ~shouldModify(cfg, r) THEN content
    ELSE LET siteUrl == siteUrlOf(r)
             cdnUrlWithProtocol ==
                 feedProtocol(siteUrl) \o cleanCdnDomain(cfg.cdnUrl)
             siteUrlMediaRegex ==
                 compileRegExp(escapeRegExp(siteUrl) \o "/media/")
         IN  replaceAll(siteUrlMediaRegex, cdnUrlWithProtocol \o "/media/",
                        content, 1)

-----------------------------------------------------------------------------
(* The inputs the host hands to the modifiers.                             *)

Toggles(im, cs, js, fo, jf, xf, sm) ==
    [enableImages |-> im, enableCss |-> cs, enableJs |-> js, enableFonts |-> fo,
     enableJsonFeed |-> jf, enableXmlFeed |-> xf, enableSitemap |-> sm]

WithCdn(t, url) ==
    [cdnUrl |-> url, enableImages |-> t.enableImages, enableCss |-> t.enableCss,
     enableJs |-> t.enableJs, enableFonts |-> t.enableFonts,
     enableJsonFeed |-> t.enableJsonFeed, enableXmlFeed |-> t.enableXmlFeed,
     enableSitemap |-> t.enableSitemap]

(* cdnUrl as the settings form may hold it; "" is the unset option. *)
CdnUrls ==
    {"", "cdn.example.com", "//cdn.example.com", "http://cdn.example.com",
     "https://cdn.example.com/", "cdn.example.com/gh/site"}

HtmlToggles ==
    {Toggles(FALSE, FALSE, FALSE, FALSE, FALSE, FALSE, FALSE),
     Toggles(FALSE, FALSE, FALSE, FALSE, FALSE, FALSE, TRUE),
     Toggles(TRUE, FALSE, FALSE, FALSE, FALSE, FALSE, FALSE),
     Toggles(FALSE, TRUE, FALSE, FALSE, FALSE, FALSE, FALSE),
     Toggles(FALSE, FALSE, TRUE, FALSE, FALSE, FALSE, FALSE),
     Toggles(FALSE, FALSE, FALSE, TRUE, FALSE, FALSE, FALSE),
     Toggles(FALSE, FALSE, FALSE, FALSE, TRUE, FALSE, FALSE),
     Toggles(FALSE, FALSE, FALSE, FALSE, FALSE, TRUE, FALSE),
     Toggles(FALSE, TRUE, TRUE, FALSE, FALSE, FALSE, TRUE),
     Toggles(TRUE, TRUE, TRUE, TRUE, FALSE, FALSE, FALSE),
     Toggles(TRUE, TRUE, TRUE, TRUE, TRUE, TRUE, TRUE)}

FeedToggles ==
    {Toggles(im, im, FALSE, FALSE, jf, xf, sm) :
        im \in {FALSE}, jf \in BOOLEAN, xf \in BOOLEAN, sm \in BOOLEAN}
    \cup {Toggles(TRUE, TRUE, TRUE, TRUE, FALSE, FALSE, FALSE)}

Contexts == {"deploy", "preview", "instant-preview"}

Site(p, u) == [present |-> p, url |-> u]

Renderer(c, f, s) == [context |-> c, file |-> f, site |-> s]

HtmlRenderers ==
    {Renderer(c, "index.html", Site(TRUE, "https://site.example")) : c \in Contexts}

(* Which hook the host runs for which generated file. *)
FeedHookFiles ==
    {<<"feedRssOutput", "feed.xml">>, <<"feedRssOutput", "blog/feed.xml">>,
     <<"feedRssOutput", "rss.xml">>, <<"feedJsonOutput", "feed.json">>,
     <<"feedJsonOutput", "feed.json.bak">>, <<"sitemapOutput", "sitemap.xml">>}

Sites ==
    {Site(FALSE, ""), Site(TRUE, ""), Site(TRUE, "https://site.example"),
     Site(TRUE, "https://site.example/"), Site(TRUE, "http://site.example")}

FeedContents ==
    {"<link>https://site.example/post/</link><url>https://site.example/media/pic.png</url>",
     "{\"image\":\"https://site.example/media/a.jpg\",\"alt\":\"https://site.example/media/b.jpg\"}",
     "<loc>http://site.example/media/a.jpg</loc><loc>https://siteXexample/media/b.jpg</loc>",
     "<loc>https://site.example/</loc><loc>https://site.example/mediax/</loc>",
     "<img src=\"/media/a.jpg\"/><a>https://site.example//media/</a>"}

Parts(l, a, o, v, c, t) ==
    [lead |-> l, attribute |-> a, open |-> o, value |-> v, close |-> c, trail |-> t]

NoParts == Parts("", "", "", "", "", "")

Render(p) ==
    p.lead \o p.attribute \o "=" \o p.open \o p.value \o p.close \o p.trail

(* The markup around an attribute: lead, opening quote, closing quote,     *)
(* trail.  The third writes the value unquoted, the fourth closes it with  *)
(* the other quote character, after an earlier attribute that is already  *)
(* double-quoted and never qualifies.                                      *)
Shapes ==
    {<<"<img ", "\"", "\"", ">">>,
     <<"<p title='t'>it's</p><a data-", "'", "'", " id='x'>y</a>">>,
     <<"<img ", "", "", " alt=x>">>,
     <<"<a href=\"#top\">up</a><a ", "\"", "'", ">">>}

UrlValues ==
    {<<"src", "/media/a.jpg">>,
     <<"src", "http://site.example/media/a.jpg">>,
     <<"src", "https://site.example/media/a.jpg?v=1">>,
     <<"src", "https://cdn.example.com/media/a.jpg">>,
     <<"src", "//site.example/media/a.jpg">>,
     <<"src", "media/a.jpg">>,
     <<"src", "logo.png">>,
     <<"src", "data:image/png;base64,/media/AAA">>,
     <<"src", "/assets/app.js">>,
     <<"src", "/assets/vendor/app.js?v=1.2">>,
     <<"src", "/assets/app.js.map">>,
     <<"href", "mailto:foo@bar.com">>,
     <<"href", "#/media/top">>,
     <<"href", "themes/x/assets/style.css">>,
     <<"href", "/assets/style.css?v=1.2">>,
     <<"href", "https://othercdn.com/assets/app.js">>,
     <<"href", "http://site.example/themes/x/font.woff2">>,
     <<"href", "/assets/data.json">>,
     <<"href", "/assets/img/icon.png">>,
     <<"href", "/assets/css.d/readme.txt">>,
     <<"href", "/themes/x/icons.svg?a=1">>,
     <<"href", "http://media/">>,
     <<"href", "/feed.xml">>,
     <<"href", "https://site.example/feed.json">>,
     <<"href", "httpfeed.xml">>,
     <<"href", "https://site.example/about/">>,
     <<"href", "/media/a\nb.jpg">>}

SrcsetValues ==
    {<<"srcset", "/media/a.jpg 1x, /media/b.jpg 2x">>,
     <<"srcset", "/media/a.jpg  480w,logo.png 2x">>,
     <<"srcset", " http://site.example/media/a.jpg\t1x ,media/b.jpg">>,
     <<"srcset", "logo.png 1x,\n  logo@2x.png 2x">>,
     <<"srcset", "/assets/a.svg, ,https://site.example/assets/b.svg 2x  3x">>,
     <<"srcset", "/media/a.jpg">>,
     <<"srcset", " ">>}

-----------------------------------------------------------------------------
(* The state machine: the host has a generated document and runs the       *)
(* modifier registered for its hook (addModifiers) over it.                *)

HtmlInit ==
    /\ hook = "htmlOutput"
    /\ config \in {WithCdn(t, u) : t \in HtmlToggles, u \in CdnUrls}
    /\ renderer \in HtmlRenderers
    /\ \E sh \in Shapes, av \in UrlValues \cup SrcsetValues :
          parts = Parts(sh[1], av[1], sh[2], av[2], sh[3], sh[4])
    /\ text = Render(parts)

FeedInit ==
    /\ \E hf \in FeedHookFiles :
          /\ hook = hf[1]
          /\ renderer \in {Renderer(c, hf[2], s) : c \in Contexts, s \in Sites}
    /\ config \in {WithCdn(t, u) : t \in FeedToggles,
                                   u \in {"", "cdn.example.com", "https://cdn.example.com/"}}
    /\ parts = NoParts
    /\ text \in FeedContents

Init ==
    /\ HtmlInit \/ FeedInit
    /\ prev = ""
    /\ output = ""
    /\ passes = 0

(* API hook 'htmlOutput' -> modifyHtml.  A later pass runs over the output *)
(* of the pass before it.                                                  *)
htmlOutput ==
    /\ hook = "htmlOutput"
    /\ passes < MaxPasses
    /\ prev' = (IF passes = 0 THEN text ELSE output)
    /\ output' = modifyHtml(config, renderer, prev')
    /\ passes' = passes + 1
    /\ UNCHANGED <<config, renderer, hook, parts, text>>

FeedModifier(name) ==
    /\ hook = name
    /\ passes = 0
    /\ prev' = text
    /\ output' = modifyFeeds(config, renderer, text)
    /\ passes' = 1
    /\ UNCHANGED <<config, renderer, hook, parts, text>>

feedRssOutput == FeedModifier("feedRssOutput")

feedJsonOutput == FeedModifier("feedJsonOutput")

sitemapOutput == FeedModifier("sitemapOutput")

Next == htmlOutput \/ feedRssOutput \/ feedJsonOutput \/ sitemapOutput

Spec == Init /\ [][Next]_vars

TypeOK ==
    /\ passes \in 0..MaxPasses
    /\ hook \in {"htmlOutput", "feedRssOutput", "feedJsonOutput", "sitemapOutput"}

-----------------------------------------------------------------------------
(* Vocabulary of the properties.                                           *)

HtmlPass1 == hook = "htmlOutput" /\ passes = 1

FeedRan == hook # "htmlOutput" /\ passes = 1

Preview == renderer.context \in {"preview", "instant-preview"}

AnyCategory ==
    \/ config.enableImages \/ config.enableCss \/ config.enableJs
    \/ config.enableFonts \/ config.enableJsonFeed \/ config.enableXmlFeed

(* modifyHtml is past its bypass conditions. *)
HtmlActive == ~Preview /\ config.cdnUrl # "" /\ AnyCategory

(* The attribute of the document is one attributeRegex finds. *)
Matched == parts.open # "" /\ parts.close # ""

(* The text between the double quotes the callback writes. *)
OutValue ==
    SubSeq(output, Len(parts.lead) + Len(parts.attribute) + 3,
           Len(output) - Len(parts.trail) - 1)

Framed(v) ==
    output = parts.lead \o parts.attribute \o "=\"" \o v \o "\"" \o parts.trail

PrefixOk(u) == startsWith(u, "http") \/ startsWith(u, "/")

Qualifies(u) == PrefixOk(u) /\ assetUrlTestRegex(finalPatterns(config), u)

(* The URL holds a slash followed by a character other than a line end. *)
HasPath(u) ==
    \E i \in 1..(Len(u) - 1) :
        Char(u, i) = "/" /\ Char(u, i + 1) \notin LineTerminators

(* The domain each configured cdnUrl stands for. *)
DomainOf(u) ==
    IF u = "cdn.example.com/gh/site" THEN u ELSE "cdn.example.com"

UrlToken(entry) == Head(splitWhitespace(trim(entry)))

Descriptors(entry) == Tail(splitWhitespace(trim(entry)))

InEntries == splitComma(parts.value)

OutEntries == splitComma(OutValue)

-----------------------------------------------------------------------------
\* C1: a bypassed modifier returns its input: modifyHtml in a preview
\* context, or without cdnUrl, or with no asset/feed category enabled;
\* modifyFeeds in a preview context, or without cdnUrl, or without a site
\* URL.  The output then equals the input text.
C1_BypassIdentity ==
    /\ (hook = "htmlOutput" /\ passes >= 1
        /\ (Preview \/ config.cdnUrl = "" \/ ~AnyCategory))
       => output = prev
    /\ (FeedRan
        /\ (Preview \/ config.cdnUrl = "" \/ ~renderer.site.present
            \/ renderer.site.url = ""))
       => output = prev

C1_Witness ==
    /\ HtmlPass1
    /\ renderer.context = "instant-preview"
    /\ config.cdnUrl = "cdn.example.com" /\ config.enableImages
    /\ parts.value = "/media/a.jpg" /\ Matched
    /\ output = text

\* C2 as stated: a rewritten URL starts with "https://" when the original
\* does and with "http://" in every other case.
C2_Original ==
    (HtmlPass1 /\ HtmlActive /\ Matched /\ parts.attribute # "srcset"
     /\ Qualifies(parts.value))
    => IF startsWith(parts.value, "https://")
       THEN startsWith(OutValue, "https://")
       ELSE startsWith(OutValue, "http://")

\* C2 as amended: a qualifying URL that holds a path is rewritten to start
\* with "http://" when the original starts with "http://" and with
\* "https://" in every other case (root-relative URLs included); a
\* qualifying URL without a path is left as it is.
C2_ProtocolRule ==
    (HtmlPass1 /\ HtmlActive /\ Matched /\ parts.attribute # "srcset"
     /\ Qualifies(parts.value))
    => IF ~HasPath(parts.value) THEN OutValue = parts.value
       ELSE IF startsWith(parts.value, "http://")
       THEN startsWith(OutValue, "http://")
       ELSE startsWith(OutValue, "https://")

C2_Witness ==
    /\ HtmlPass1 /\ HtmlActive /\ Matched
    /\ config.cdnUrl = "cdn.example.com" /\ config.enableImages
    /\ parts.attribute = "src" /\ parts.value = "/media/a.jpg"
    /\ OutValue = "https://cdn.example.com/media/a.jpg"

(* scheme://host/path: the scheme, and where the path starts. *)
SchemeOf(u) ==
    IF startsWith(u, "https://") THEN "https://"
    ELSE IF startsWith(u, "http://") THEN "http://" ELSE ""

PathIndex(u) == FirstIn(u, Len(SchemeOf(u)) + 1, {"/"})

Absolute(u) ==
    /\ SchemeOf(u) # ""
    /\ PathIndex(u) > Len(SchemeOf(u)) + 1
    /\ PathIndex(u) <= Len(u)

\* C3: a src/href value scheme://host/path that matches the enabled
\* patterns is rewritten to scheme + cleaned CDN domain + path, the same
\* for every way of writing cdnUrl.
C3_DomainSubstitution ==
    (HtmlPass1 /\ HtmlActive /\ Matched /\ parts.attribute # "srcset"
     /\ Absolute(parts.value)
     /\ assetUrlTestRegex(finalPatterns(config), parts.value))
    => OutValue = SchemeOf(parts.value) \o DomainOf(config.cdnUrl)
                    \o Drop(parts.value, PathIndex(parts.value) - 1)

NoUrlQualifies ==
    IF parts.attribute = "srcset"
    THEN \A k \in 1..Len(InEntries) : ~Qualifies(UrlToken(InEntries[k]))
    ELSE ~Qualifies(parts.value)

\* C4 as stated: a document none of whose URLs qualifies comes out of
\* modifyHtml exactly as it went in.
C4_Original ==
    (HtmlPass1 /\ HtmlActive /\ NoUrlQualifies) => output = text

RECURSIVE NormalizedEntries(_)
NormalizedEntries(entries) ==
    IF Len(entries) = 0 THEN <<>>
    ELSE <<join(splitWhitespace(trim(Head(entries))), " ")>>
           \o NormalizedEntries(Tail(entries))

\* C4 as amended: text that attributeRegex does not match is unchanged; a
\* matched src/href attribute whose URL does not qualify keeps its name and
\* value and is written with double quotes; a matched srcset attribute none
\* of whose URLs qualifies keeps every token, its entries trimmed and
\* joined by ", " and the tokens of an entry by one space; the text before
\* and after the attribute is unchanged.
C4_UnmatchedKept ==
    (HtmlPass1 /\ HtmlActive)
    => /\ ~Matched => output = text
       /\ Matched => /\ startsWith(output, parts.lead \o parts.attribute \o "=\"")
                     /\ endsWith(output, "\"" \o parts.trail)
       /\ (Matched /\ NoUrlQualifies /\ parts.attribute # "srcset")
          => Framed(parts.value)
       /\ (Matched /\ NoUrlQualifies /\ parts.attribute = "srcset")
          => Framed(join(NormalizedEntries(InEntries), ", "))

C4_Witness ==
    /\ HtmlPass1 /\ HtmlActive /\ Matched /\ NoUrlQualifies
    /\ parts.open = "'" /\ parts.value = "logo.png"
    /\ output # text
    /\ Framed("logo.png")

FeedReady ==
    /\ FeedRan /\ ~Preview /\ config.cdnUrl # ""
    /\ renderer.site.present /\ renderer.site.url # ""

FileGate ==
    \/ endsWith(renderer.file, "feed.xml") /\ config.enableXmlFeed
    \/ endsWith(renderer.file, "feed.json") /\ config.enableJsonFeed
    \/ endsWith(renderer.file, "sitemap.xml") /\ config.enableSitemap

\* C5: past the bypass conditions, modifyFeeds changes the content only
\* when the file name ends with feed.xml, feed.json or sitemap.xml and the
\* toggle of that very suffix is on.
C5_FeedGate == (FeedReady /\ output # prev) => FileGate

C5_Witness ==
    /\ FeedReady
    /\ renderer.file = "feed.xml" /\ renderer.site.url = "https://site.example"
    /\ ~config.enableXmlFeed /\ config.enableJsonFeed /\ config.enableSitemap
    /\ text = "<link>https://site.example/post/</link><url>https://site.example/media/pic.png</url>"
    /\ output = text

(* s with every occurrence of the literal find, taken left to right,       *)
(* replaced by repl.                                                       *)
RECURSIVE LiteralReplace(_, _, _, _)
LiteralReplace(s, find, repl, i) ==
    LET at == {k \in i..Len(s) : StartsWithAt(s, find, k)}
    IN  IF at = {} THEN SubSeq(s, i, Len(s))
        ELSE SubSeq(s, i, Min(at) - 1) \o repl
               \o LiteralReplace(s, find, repl, Min(at) + Len(find))

NormalizedSite ==
    IF Char(renderer.site.url, Len(renderer.site.url)) = "/"
    THEN SubSeq(renderer.site.url, 1, Len(renderer.site.url) - 1)
    ELSE renderer.site.url

\* C6: when modifyFeeds applies, the output is the input with every literal
\* occurrence of S/media/ replaced by P D /media/ and nothing else changed:
\* S the site URL without one trailing slash, P "https://" when S starts
\* with it and "http://" otherwise, D the cleaned CDN domain.
C6_FeedSubstitution ==
    (FeedReady /\ FileGate)
    => output = LiteralReplace(prev, NormalizedSite \o "/media/",
                    (IF startsWith(NormalizedSite, "https://")
                     THEN "https://" ELSE "http://")
                      \o DomainOf(config.cdnUrl) \o "/media/", 1)

C6_Witness ==
    /\ FeedReady /\ FileGate
    /\ renderer.site.url = "https://site.example/"
    /\ config.cdnUrl = "https://cdn.example.com/"
    /\ text = "<link>https://site.example/post/</link><url>https://site.example/media/pic.png</url>"
    /\ output = "<link>https://site.example/post/</link><url>https://cdn.example.com/media/pic.png</url>"

RECURSIVE ExpectedEntries(_)
ExpectedEntries(entries) ==
    IF Len(entries) = 0 THEN <<>>
    ELSE <<join(<<replaceDomainAndPreserveProtocol(
                      config, finalPatterns(config), UrlToken(Head(entries)))>>
                \o Descriptors(Head(entries)), " ")>>
           \o ExpectedEntries(Tail(entries))

\* C7: a srcset value comes out with as many comma-separated entries, in
\* the same order; the leading URL token of each entry is what the URL rule
\* makes of it alone, its descriptors are kept in order, the tokens of an
\* entry are joined by one space and the entries by ", ".
C7_Srcset ==
    (HtmlPass1 /\ HtmlActive /\ Matched /\ parts.attribute = "srcset")
    => /\ Len(OutEntries) = Len(InEntries)
       /\ \A k \in 1..Len(InEntries) :
             /\ Descriptors(OutEntries[k]) = Descriptors(InEntries[k])
             /\ UrlToken(OutEntries[k]) =
                  replaceDomainAndPreserveProtocol(
                      config, finalPatterns(config), UrlToken(InEntries[k]))
       /\ OutValue = join(ExpectedEntries(InEntries), ", ")
       /\ Framed(OutValue)

C7_Witness ==
    /\ HtmlPass1 /\ HtmlActive /\ Matched
    /\ config.cdnUrl = "//cdn.example.com" /\ config.enableImages
    /\ parts.value = "/media/a.jpg  480w,logo.png 2x"
    /\ OutValue = "https://cdn.example.com/media/a.jpg 480w, logo.png 2x"

\* C8: a candidate URL that starts neither with "http" nor with "/" is
\* never rewritten, whatever the configuration and whatever pattern its
\* text holds.
C8_LeadingCharacter ==
    (HtmlPass1 /\ Matched)
    => IF parts.attribute = "srcset"
       THEN \A k \in 1..Len(InEntries) :
               (/\ ~PrefixOk(UrlToken(InEntries[k]))
                /\ Len(OutEntries) = Len(InEntries))
               => UrlToken(OutEntries[k]) = UrlToken(InEntries[k])
       ELSE ~PrefixOk(parts.value)
               => IF HtmlActive THEN Framed(parts.value) ELSE output = text

C8_Witness ==
    /\ HtmlPass1 /\ HtmlActive /\ Matched
    /\ config.enableImages
    /\ parts.value = "data:image/png;base64,/media/AAA"
    /\ assetUrlTestRegex(finalPatterns(config), parts.value)
    /\ Framed(parts.value)

EnabledExtensions ==
    (IF config.enableCss THEN {"css"} ELSE {})
    \cup (IF config.enableJs THEN {"js"} ELSE {})
    \cup (IF config.enableFonts
          THEN {"woff", "woff2", "ttf", "otf", "eot", "svg"} ELSE {})

(* The URL without its query string. *)
BeforeQuery(u) == SubSeq(u, 1, FirstIn(u, 1, {"?"}) - 1)

(* An /assets/ or /themes/ segment and, after it, a final extension of an  *)
(* enabled category.                                                       *)
ExtensionGated(u) ==
    \E i \in 1..Len(BeforeQuery(u)), e \in EnabledExtensions :
        /\ \/ StartsWithAt(BeforeQuery(u), "/assets/", i)
           \/ StartsWithAt(BeforeQuery(u), "/themes/", i)
        /\ endsWith(BeforeQuery(u), "." \o e)
        /\ Len(BeforeQuery(u)) - Len(e) >= i + 8

\* C9: with images and both feed patterns off, a URL is rewritten only if
\* it holds an /assets/ or /themes/ segment and ends, before any query
\* string, in an extension of an enabled category.
C9_ExtensionGate ==
    (HtmlPass1 /\ HtmlActive /\ Matched /\ parts.attribute # "srcset"
     /\ ~config.enableImages /\ ~config.enableJsonFeed /\ ~config.enableXmlFeed
     /\ OutValue # parts.value)
    => ExtensionGated(parts.value)

BareHost(d) ==
    /\ d # ""
    /\ \A i \in 1..Len(d) : Char(d, i) \notin ({"/", ","} \cup Quotes \cup WhiteSpace)

\* C10: with a bare host name as the CDN domain, a second run of modifyHtml
\* over the output of the first returns it unchanged.
C10_Idempotent ==
    (hook = "htmlOutput" /\ passes >= 2 /\ BareHost(DomainOf(config.cdnUrl)))
    => output = prev

C10_Witness ==
    /\ hook = "htmlOutput" /\ passes = 2 /\ HtmlActive
    /\ config.cdnUrl = "http://cdn.example.com"
    /\ parts.value = " http://site.example/media/a.jpg\t1x ,media/b.jpg"
    /\ parts.open = "'"
    /\ prev # text
    /\ output = prev

====
